---- MODULE Spec2Model ----
(***************************************************************************)
(* Store-and-forward pipeline of src/main.py: the SQLite table `queue`,    *)
(* enqueue_to_db, flush_db_queue (batch publish, mark sent, cleanup) and   *)
(* the polling loop of main().  One action per step of the loop; a crash   *)
(* of the process may happen between any two steps (Spec), or a            *)
(* KeyboardInterrupt followed by the finally block of main() (StopSpec).   *)
(* The mark-sent UPDATE (MarkSpec), the three statements that write the    *)
(* table (IdSpec) and read_all_data (ReadSpec) are also run alone, on      *)
(* every input within the bounds.                                          *)
(***************************************************************************)
EXTENDS Integers, FiniteSets, Sequences, TLC

\* ---------------------------------------------------------------- bounds
MaxId == 3          \* rows DB_PATH has room for in a run with crashes
MaxLiveId == 1      \* rows DB_PATH has room for in a run checked for liveness
MaxRows == 5        \* INSERTs executed when the statements run alone
NumDevices == 2     \* len(device_ids)
NumRegisters == 4   \* registers of DEVICE_META kept when read_all_data runs alone

\* ------------------------------------------------------ program constants
max_batch == 2      \* max_batch = 100 in main()
RetainCount == 1    \* MAX(id) - 5000 in the cleanup DELETE
MQTT_TOPIC == "topic"

device_ids == 1..NumDevices

\* Outcomes of read_all_data kept in the loop: the measures dictionary is
\* identified by the set of register names that were read successfully
\* (none: empty reading, has_valid false; some: has_valid true).
Readings == {{}, {"ac_v_a"}}

\* The timestamp of a payload and the ts column are wall-clock strings that
\* no step of the program reads back; they are left out of the records.
NoPayload == [device_id |-> 0, measures |-> {}]

VARIABLES
    queue,        \* table queue as conn sees it: [id, topic, payload, sent]
    disk,         \* table queue as last committed to DB_PATH
    seq,          \* sqlite_sequence of the AUTOINCREMENT key
    capacity,     \* environment: rows the disk holding DB_PATH has room for
    mqtt_client,  \* "None" or "client"
    pc,           \* position of main()
    dev,          \* index of dev_id in device_ids
    payload,      \* payload of the device being processed
    rows,         \* result of the pending SELECT in flush_db_queue
    idx,          \* position of the for loop over rows
    sent_count,   \* sent_count of flush_db_queue
    ret,          \* value returned by the last flush_db_queue call
    deleted,      \* cur.rowcount of the cleanup DELETE, -1 while unassigned
    chanStable,   \* environment: from now on connect and publish succeed
    dbStable,     \* environment: from now on SELECT and UPDATE succeed
    cur_id,       \* history: id of the row inserted for this device, 0 if none
    oppAcked,     \* history: ids of this cycle acknowledged opportunistically
    flushAcked,   \* history: ids of this cycle acknowledged in flush
    published,    \* history: payload handed to client.publish by the last step
    acked,        \* history: is_published() of that publish
    failed_at,    \* history: first batch position whose publish failed
    attempted,    \* history: last batch position handed to client.publish
    enq_calls,    \* history: enqueue_to_db calls of this cycle
    inserted,     \* history: committed INSERTs of this cycle
    lost_ack,     \* history: id acknowledged but not yet marked at a crash
    flush_calls,  \* history: flush_db_queue calls of this cycle
    chan_failed,  \* history: a publish failed and no connect was tried since
    conn_closes,  \* history: conn.close() calls of the finally block
    mqtt_closes,  \* history: close_mqtt() calls of the finally block
    orphan,       \* history: a connected client no variable of main() holds
    tbl0,         \* UPDATE alone: table queue before the first UPDATE
    tbl,          \* statements alone: table queue now
    row_id,       \* statements alone: id of the last INSERT or UPDATE, else 0
    updates,      \* UPDATE alone: times the UPDATE was executed
    tbl_seq,      \* statements alone: sqlite_sequence of the table tbl
    used,         \* history: ids ever given to a row of tbl
    outcomes,     \* read_all_data alone: per register, does read_float return
    address,      \* read_all_data alone: instrument.address, 0 before the call
    reg,          \* read_all_data alone: position in the catalogue
    data,         \* read_all_data alone: keys of data
    valid_flags,  \* read_all_data alone: valid_flags
    result,       \* read_all_data alone: the returned pair, NoResult before
    attempts      \* history: registers handed to read_float, in order

vars == <<queue, disk, seq, capacity, mqtt_client, pc, dev, payload, rows, idx,
          sent_count, ret, deleted, chanStable, dbStable, cur_id, oppAcked,
          flushAcked, published, acked, failed_at, attempted, enq_calls,
          inserted, lost_ack, flush_calls, chan_failed, conn_closes, mqtt_closes, orphan,
          tbl0, tbl, row_id, updates, tbl_seq, used, outcomes, address, reg,
          data, valid_flags, result, attempts>>

db == <<queue, disk, seq>>
env == <<chanStable, dbStable, capacity>>
turn == <<payload, cur_id>>
flushLocals == <<rows, idx, sent_count, ret, deleted>>
flushHist == <<failed_at, attempted, flushAcked, flush_calls>>
cycleHist == <<enq_calls, inserted, oppAcked>>
shutdown == <<conn_closes, mqtt_closes, orphan>>
markVars == <<tbl0, tbl, row_id, updates>>
idVars == <<tbl_seq, used>>
readVars == <<outcomes, address, reg, data, valid_flags, result, attempts>>
units == <<markVars, idVars, readVars>>

\* ------------------------------------------------------------- SQL helpers
Ids(q) == {r.id : r \in q}

MaxOf(S) == CHOOSE m \in S : \A x \in S : x <= m
MinOf(S) == CHOOSE m \in S : \A x \in S : m <= x

Row(q, id) == CHOOSE r \in q : r.id = id

RECURSIVE Ascending(_)
Ascending(S) ==
    IF S = {} THEN <<>>
    ELSE LET m == MinOf(S) IN <<m>> \o Ascending(S \ {m})

Take(s, n) == SubSeq(s, 1, IF Len(s) < n THEN Len(s) ELSE n)

\* A pending SELECT without its LIMIT
PendingNoLimit(q, limit) ==
    LET ids == Ascending({r.id : r \in {x \in q : ~x.sent}})
    IN [i \in 1..Len(ids) |->
           [id |-> ids[i], topic |-> Row(q, ids[i]).topic,
            payload |-> Row(q, ids[i]).payload]]

\* SELECT id, topic, payload FROM queue WHERE sent=0 ORDER BY id LIMIT ?
Pending(q, limit) ==
    LET ids == Take(Ascending({r.id : r \in {x \in q : ~x.sent}}), limit)
    IN [i \in 1..Len(ids) |->
           [id |-> ids[i], topic |-> Row(q, ids[i]).topic,
            payload |-> Row(q, ids[i]).payload]]

\* INSERT INTO queue (topic, payload, ts, sent) VALUES (?, ?, ?, 0)
Insert(q, id, topic, p) ==
    q \cup {[id |-> id, topic |-> topic, payload |-> p, sent |-> FALSE]}

\* An UPDATE that flips the flag
MarkSentToggle(q, id) ==
    {IF r.id = id THEN [r EXCEPT !.sent = ~r.sent] ELSE r : r \in q}

\* UPDATE queue SET sent=1 WHERE id=?
MarkSent(q, id) ==
    {IF r.id = id THEN [r EXCEPT !.sent = TRUE] ELSE r : r \in q}

\* SELECT IFNULL(MAX(id) - 5000, 0) FROM queue
Threshold(q) == IF q = {} THEN 0 ELSE MaxOf(Ids(q)) - RetainCount

\* A cleanup that forgets the sent=1 condition
CleanupAnyRow(q) == {r \in q : ~(r.id < Threshold(q))}

\* A cleanup that compares with <= instead of <
CleanupInclusive(q) == {r \in q : ~(r.sent /\ r.id <= Threshold(q))}

\* DELETE FROM queue WHERE sent=1 AND id < (threshold)
Cleanup(q) == {r \in q : ~(r.sent /\ r.id < Threshold(q))}

\* make_payload(measures, PLACE, dev_id)
make_payload(measures, device_id) ==
    [device_id |-> device_id, measures |-> measures]

\* ------------------------------------------------------------------- Init
InitWith(room) ==
    /\ queue = {}
    /\ disk = {}
    /\ seq = 0
    /\ capacity = room
    /\ mqtt_client = "None"
    /\ pc = "start"
    /\ dev = 1
    /\ payload = NoPayload
    /\ rows = <<>>
    /\ idx = 0
    /\ sent_count = 0
    /\ ret = 0
    /\ deleted = -1
    /\ chanStable = FALSE
    /\ dbStable = FALSE
    /\ cur_id = 0
    /\ oppAcked = {}
    /\ flushAcked = {}
    /\ published = NoPayload
    /\ acked = FALSE
    /\ failed_at = 0
    /\ attempted = 0
    /\ enq_calls = 0
    /\ inserted = 0
    /\ lost_ack = 0
    /\ flush_calls = 0
    /\ chan_failed = FALSE
    /\ conn_closes = 0
    /\ mqtt_closes = 0
    /\ orphan = FALSE

NoResult == <<>>

\* read_all_data has not been called
NoRead ==
    /\ address = 0
    /\ reg = 0
    /\ data = {}
    /\ valid_flags = <<>>
    /\ result = NoResult
    /\ attempts = <<>>

\* the statements and the function checked alone are not running
NoUnits ==
    /\ tbl0 = {}
    /\ tbl = {}
    /\ row_id = 0
    /\ updates = 0
    /\ tbl_seq = 0
    /\ used = {}
    /\ outcomes = <<>>
    /\ NoRead

Init == InitWith(MaxId) /\ NoUnits
InitLive == InitWith(MaxLiveId) /\ NoUnits

\* Outcomes the channel can produce
ConnectResults == IF chanStable THEN {"client"} ELSE {"client", "None"}
PublishResults == IF chanStable THEN {"ack"} ELSE {"ack", "unacked", "exception"}

\* the step hands nothing to client.publish
NoPublish ==
    /\ published' = NoPayload
    /\ acked' = FALSE

\* connect_mqtt() was called
ConnectTried == chan_failed' = FALSE

\* ------------------------------------------------------------ main(): start
\* mqtt_client = connect_mqtt()
Start ==
    /\ pc = "start"
    /\ \E c \in ConnectResults : mqtt_client' = c
    /\ pc' = "read"
    /\ dev' = 1
    /\ lost_ack' = 0
    /\ NoPublish
    /\ ConnectTried
    /\ UNCHANGED <<db, env, turn, flushLocals, flushHist, cycleHist, shutdown, units>>

\* next dev_id of the for loop, or the flush after the last one; payload is
\* assigned again before it is read
NextDevice ==
    /\ IF dev < NumDevices
       THEN /\ dev' = dev + 1
            /\ pc' = "read"
       ELSE /\ dev' = dev
            /\ pc' = "flush"
    /\ payload' = NoPayload
    /\ cur_id' = 0

\* A loop that skips the device when nothing could be read
ReadDeviceSkipsEmpty ==
    /\ pc = "read"
    /\ \E m \in Readings :
          IF m = {}
          THEN NextDevice
          ELSE /\ payload' = make_payload(m, dev)
               /\ pc' = "enqueue"
               /\ UNCHANGED <<dev, cur_id>>
    /\ NoPublish
    /\ UNCHANGED chan_failed
    /\ UNCHANGED <<db, mqtt_client, env, flushLocals, flushHist, cycleHist,
                   lost_ack, shutdown, units>>

\* measures, has_valid = read_all_data(...); payload = make_payload(...)
ReadDevice ==
    /\ pc = "read"
    /\ \E m \in Readings : payload' = make_payload(m, dev)
    /\ pc' = "enqueue"
    /\ NoPublish
    /\ UNCHANGED chan_failed
    /\ UNCHANGED <<db, mqtt_client, dev, env, cur_id, flushLocals, flushHist,
                   cycleHist, lost_ack, shutdown, units>>

\* A loop that never calls connect_mqtt again
AfterEnqueueNoRetry == "publish"

\* if mqtt_client is None: ... connect_mqtt(), else straight to the publish
AfterEnqueue == IF mqtt_client = "None" THEN "reconnect" ELSE "publish"

\* An enqueue_to_db that returns without conn.commit()
EnqueueOkNoCommit ==
    /\ pc = "enqueue"
    /\ seq < capacity
    /\ seq' = seq + 1
    /\ queue' = Insert(queue, seq + 1, MQTT_TOPIC, payload)
    /\ disk' = disk
    /\ cur_id' = seq + 1
    /\ enq_calls' = enq_calls + 1
    /\ inserted' = inserted + 1
    /\ pc' = AfterEnqueue
    /\ NoPublish
    /\ UNCHANGED chan_failed
    /\ UNCHANGED <<mqtt_client, dev, payload, env, oppAcked, flushLocals,
                   flushHist, lost_ack, shutdown, units>>

\* enqueue_to_db: INSERT and conn.commit() succeed
EnqueueOk ==
    /\ pc = "enqueue"
    /\ seq < capacity
    /\ seq' = seq + 1
    /\ queue' = Insert(queue, seq + 1, MQTT_TOPIC, payload)
    /\ disk' = queue'
    /\ cur_id' = seq + 1
    /\ enq_calls' = enq_calls + 1
    /\ inserted' = inserted + 1
    /\ pc' = AfterEnqueue
    /\ NoPublish
    /\ UNCHANGED chan_failed
    /\ UNCHANGED <<mqtt_client, dev, payload, env, oppAcked, flushLocals,
                   flushHist, lost_ack, shutdown, units>>

\* An enqueue_to_db whose error reaches main()'s except Exception
EnqueueRaises ==
    /\ pc = "enqueue"
    /\ cur_id' = 0
    /\ enq_calls' = enq_calls + 1
    /\ pc' = "close_conn"
    /\ NoPublish
    /\ UNCHANGED chan_failed
    /\ UNCHANGED <<db, mqtt_client, dev, payload, env, inserted, oppAcked,
                   flushLocals, flushHist, lost_ack, shutdown, units>>

\* enqueue_to_db: the INSERT raises, the error is logged and swallowed
EnqueueFail ==
    /\ pc = "enqueue"
    /\ cur_id' = 0
    /\ enq_calls' = enq_calls + 1
    /\ pc' = AfterEnqueue
    /\ NoPublish
    /\ UNCHANGED chan_failed
    /\ UNCHANGED <<db, mqtt_client, dev, payload, env, inserted, oppAcked,
                   flushLocals, flushHist, lost_ack, shutdown, units>>

\* A loop that connects only once, before the loop
ReconnectGivesUp ==
    /\ pc = "reconnect"
    /\ mqtt_client' = "None"
    /\ pc' = "publish"
    /\ NoPublish
    /\ UNCHANGED chan_failed
    /\ UNCHANGED <<db, dev, env, turn, flushLocals, flushHist, cycleHist,
                   lost_ack, shutdown, units>>

\* if mqtt_client is None: mqtt_client = connect_mqtt()
Reconnect ==
    /\ pc = "reconnect"
    /\ \E c \in ConnectResults : mqtt_client' = c
    /\ pc' = "publish"
    /\ NoPublish
    /\ ConnectTried
    /\ UNCHANGED <<db, dev, env, turn, flushLocals, flushHist, cycleHist,
                   lost_ack, shutdown, units>>

\* An opportunistic publish that records its acknowledgement in the table
OppPublishMarksSent ==
    /\ pc = "publish"
    /\ mqtt_client = "client"
    /\ \E o \in PublishResults :
          /\ acked' = (o = "ack")
          /\ chan_failed' = IF o = "ack" THEN chan_failed ELSE TRUE
          /\ oppAcked' = IF o = "ack" /\ cur_id # 0
                         THEN oppAcked \cup {cur_id} ELSE oppAcked
          /\ queue' = IF o = "ack" /\ cur_id # 0
                      THEN MarkSent(queue, cur_id) ELSE queue
    /\ disk' = queue'
    /\ published' = payload
    /\ NextDevice
    /\ UNCHANGED <<seq, mqtt_client, env, enq_calls, inserted, flushLocals,
                   flushHist, lost_ack, shutdown, units>>

\* if mqtt_client is not None: publish(payload); wait_for_publish()
OppPublish ==
    /\ pc = "publish"
    /\ mqtt_client = "client"
    /\ \E o \in PublishResults :
          /\ acked' = (o = "ack")
          /\ chan_failed' = IF o = "ack" THEN chan_failed ELSE TRUE
          /\ oppAcked' = IF o = "ack" /\ cur_id # 0
                         THEN oppAcked \cup {cur_id} ELSE oppAcked
    /\ published' = payload
    /\ NextDevice
    /\ UNCHANGED <<db, mqtt_client, env, enq_calls, inserted, flushLocals,
                   flushHist, lost_ack, shutdown, units>>

\* else: "MQTT not connected, data will stay in local queue."
OppSkip ==
    /\ pc = "publish"
    /\ mqtt_client = "None"
    /\ NextDevice
    /\ NoPublish
    /\ UNCHANGED chan_failed
    /\ UNCHANGED <<db, mqtt_client, env, flushLocals, flushHist, cycleHist,
                   lost_ack, shutdown, units>>

\* ------------------------------------------------------- flush_db_queue
\* if client is None: return 0
FlushNoClient ==
    /\ pc = "flush"
    /\ mqtt_client = "None"
    /\ ret' = 0
    /\ pc' = "sleep"
    /\ flush_calls' = flush_calls + 1
    /\ NoPublish
    /\ UNCHANGED chan_failed
    /\ UNCHANGED <<db, mqtt_client, dev, env, turn, rows, idx, sent_count,
                   deleted, failed_at, attempted, flushAcked, cycleHist,
                   lost_ack, shutdown, units>>

\* the pending SELECT raises: "Read DB queue failed"; return 0
FlushSelectFail ==
    /\ pc = "flush"
    /\ mqtt_client = "client"
    /\ ~dbStable
    /\ ret' = 0
    /\ pc' = "sleep"
    /\ flush_calls' = flush_calls + 1
    /\ NoPublish
    /\ UNCHANGED chan_failed
    /\ UNCHANGED <<db, mqtt_client, dev, env, turn, rows, idx, sent_count,
                   deleted, failed_at, attempted, flushAcked, cycleHist,
                   lost_ack, shutdown, units>>

\* rows = cur.fetchall(); if not rows: return 0; sent_count = 0
FlushSelect ==
    /\ pc = "flush"
    /\ mqtt_client = "client"
    /\ LET rs == Pending(queue, max_batch) IN
         IF rs = <<>>
         THEN /\ ret' = 0
              /\ pc' = "sleep"
              /\ UNCHANGED <<rows, idx, sent_count>>
         ELSE /\ rows' = rs
              /\ idx' = 1
              /\ sent_count' = 0
              /\ pc' = "flush_pub"
              /\ UNCHANGED ret
    /\ flush_calls' = flush_calls + 1
    /\ NoPublish
    /\ UNCHANGED chan_failed
    /\ UNCHANGED <<db, mqtt_client, dev, env, turn, deleted, failed_at,
                   attempted, flushAcked, cycleHist, lost_ack, shutdown, units>>

\* the for loop moves to the next row, or ends
NextRow ==
    IF idx < Len(rows)
    THEN /\ idx' = idx + 1
         /\ pc' = "flush_pub"
    ELSE /\ idx' = idx
         /\ pc' = "prune"

\* A flush that marks the row whatever is_published() says
FlushPublishIgnoresAck ==
    /\ pc = "flush_pub"
    /\ published' = rows[idx].payload
    /\ attempted' = idx
    /\ \E o \in PublishResults :
          /\ acked' = (o = "ack")
          /\ chan_failed' = IF o = "ack" THEN chan_failed ELSE TRUE
          /\ \/ /\ o \in {"ack", "unacked"}
                /\ flushAcked' = IF o = "ack"
                                 THEN flushAcked \cup {rows[idx].id}
                                 ELSE flushAcked
                /\ failed_at' = IF o = "unacked" /\ failed_at = 0
                                THEN idx ELSE failed_at
                /\ pc' = "flush_mark"
                /\ UNCHANGED idx
             \/ /\ o = "exception"
                /\ failed_at' = IF failed_at = 0 THEN idx ELSE failed_at
                /\ pc' = "prune"
                /\ UNCHANGED <<idx, flushAcked>>
    /\ UNCHANGED <<db, mqtt_client, dev, env, turn, rows, sent_count, ret,
                   deleted, flush_calls, cycleHist, lost_ack, shutdown, units>>

\* info = client.publish(topic, payload); info.wait_for_publish();
\* info.is_published()
FlushPublish ==
    /\ pc = "flush_pub"
    /\ published' = rows[idx].payload
    /\ attempted' = idx
    /\ \E o \in PublishResults :
          /\ acked' = (o = "ack")
          /\ chan_failed' = IF o = "ack" THEN chan_failed ELSE TRUE
          /\ \/ /\ o = "ack"
                /\ flushAcked' = flushAcked \cup {rows[idx].id}
                /\ pc' = "flush_mark"
                /\ UNCHANGED <<idx, failed_at>>
             \/ /\ o = "unacked"          \* else: logger.warning(...)
                /\ failed_at' = IF failed_at = 0 THEN idx ELSE failed_at
                /\ NextRow
                /\ UNCHANGED flushAcked
             \/ /\ o = "exception"        \* except: logger.error(...); break
                /\ failed_at' = IF failed_at = 0 THEN idx ELSE failed_at
                /\ pc' = "prune"
                /\ UNCHANGED <<idx, flushAcked>>
    /\ UNCHANGED <<db, mqtt_client, dev, env, turn, rows, sent_count, ret,
                   deleted, flush_calls, cycleHist, lost_ack, shutdown, units>>

\* UPDATE queue SET sent=1 WHERE id=?; conn.commit(); sent_count += 1
FlushMark ==
    /\ pc = "flush_mark"
    /\ queue' = MarkSent(queue, rows[idx].id)
    /\ disk' = queue'
    /\ sent_count' = sent_count + 1
    /\ NextRow
    /\ NoPublish
    /\ UNCHANGED chan_failed
    /\ UNCHANGED <<seq, mqtt_client, dev, env, turn, rows, ret, deleted,
                   flushHist, cycleHist, lost_ack, shutdown, units>>

\* the UPDATE raises: except: logger.error(...); break
FlushMarkFail ==
    /\ pc = "flush_mark"
    /\ ~dbStable
    /\ pc' = "prune"
    /\ NoPublish
    /\ UNCHANGED chan_failed
    /\ UNCHANGED <<db, mqtt_client, dev, env, turn, flushLocals, flushHist,
                   cycleHist, lost_ack, shutdown, units>>

\* cleanup DELETE; deleted = cur.rowcount; conn.commit(); return sent_count
PruneOk ==
    /\ pc = "prune"
    /\ queue' = Cleanup(queue)
    /\ disk' = queue'
    /\ deleted' = Cardinality(queue) - Cardinality(Cleanup(queue))
    /\ ret' = sent_count
    /\ pc' = "sleep"
    /\ NoPublish
    /\ UNCHANGED chan_failed
    /\ UNCHANGED <<seq, mqtt_client, dev, env, turn, rows, idx, sent_count,
                   flushHist, cycleHist, lost_ack, shutdown, units>>

\* the cleanup raises: "Cleanup DB queue failed"; return sent_count
PruneFail ==
    /\ pc = "prune"
    /\ ret' = sent_count
    /\ pc' = "sleep"
    /\ NoPublish
    /\ UNCHANGED chan_failed
    /\ UNCHANGED <<db, mqtt_client, dev, env, turn, rows, idx, sent_count,
                   deleted, flushHist, cycleHist, lost_ack, shutdown, units>>

\* the locals and the history of a cycle are forgotten
ForgetCycle ==
    /\ dev' = 1
    /\ payload' = NoPayload
    /\ cur_id' = 0
    /\ oppAcked' = {}
    /\ flushAcked' = {}
    /\ rows' = <<>>
    /\ idx' = 0
    /\ sent_count' = 0
    /\ ret' = 0
    /\ deleted' = -1
    /\ failed_at' = 0
    /\ flush_calls' = 0
    /\ attempted' = 0
    /\ enq_calls' = 0
    /\ inserted' = 0
    /\ NoPublish

\* time.sleep(SLEEP_TIME); next iteration of while True
Sleep ==
    /\ pc = "sleep"
    /\ pc' = "read"
    /\ ForgetCycle
    /\ UNCHANGED chan_failed
    /\ UNCHANGED <<db, mqtt_client, env, lost_ack, shutdown, units>>

\* The process dies and is started again: what was committed to DB_PATH is
\* read back (CREATE TABLE IF NOT EXISTS), everything else is lost.
Crash ==
    /\ pc # "start"
    /\ pc' = "start"
    /\ queue' = disk
    /\ mqtt_client' = "None"
    /\ lost_ack' = IF pc = "flush_mark" THEN rows[idx].id ELSE 0
    /\ ForgetCycle
    /\ chan_failed' = FALSE
    /\ UNCHANGED <<disk, seq, env, shutdown, units>>

\* Environment: the broker is reachable from now on
ChannelRecovers ==
    /\ ~chanStable
    /\ chanStable' = TRUE
    /\ UNCHANGED <<db, mqtt_client, pc, dev, dbStable, capacity, turn,
                   published, acked, chan_failed, flushLocals, flushHist, cycleHist,
                   lost_ack, shutdown, units>>

\* Environment: the database file is readable and writable from now on
StorageRecovers ==
    /\ ~dbStable
    /\ dbStable' = TRUE
    /\ UNCHANGED <<db, mqtt_client, pc, dev, chanStable, capacity, turn,
                   published, acked, chan_failed, flushLocals, flushHist, cycleHist,
                   lost_ack, shutdown, units>>

MainStep ==
    \/ Start
    \/ ReadDevice
    \/ EnqueueOk
    \/ EnqueueFail
    \/ Reconnect
    \/ OppPublish
    \/ OppSkip
    \/ FlushNoClient
    \/ FlushSelectFail
    \/ FlushSelect
    \/ FlushPublish
    \/ FlushMark
    \/ FlushMarkFail
    \/ PruneOk
    \/ PruneFail
    \/ Sleep

Next ==
    \/ MainStep
    \/ Crash

Spec == Init /\ [][Next]_vars

NextLive ==
    \/ MainStep
    \/ ChannelRecovers
    \/ StorageRecovers

LiveSpec == InitLive /\ [][NextLive]_vars /\ WF_vars(MainStep)

\* --------------------------------------------------- main(): interruption
CyclePcs == {"read", "enqueue", "reconnect", "publish", "flush", "flush_pub",
             "flush_mark", "prune", "sleep"}

\* KeyboardInterrupt raised inside the while loop: "Stopping...", then the
\* finally block.  connect_mqtt catches Exception only: an interrupt raised
\* in it after client.connect() returned leaves main()'s mqtt_client None
\* while the client it created is connected.
Interrupt ==
    /\ pc \in CyclePcs
    /\ pc' = "close_conn"
    /\ orphan' \in IF pc = "reconnect" THEN {FALSE, TRUE} ELSE {FALSE}
    /\ NoPublish
    /\ UNCHANGED chan_failed
    /\ UNCHANGED <<db, mqtt_client, dev, env, turn, flushLocals, flushHist,
                   cycleHist, lost_ack, conn_closes, mqtt_closes, units>>

\* try: conn.close() except Exception: pass (returning or raising, the
\* block goes on to close_mqtt)
CloseConn ==
    /\ pc = "close_conn"
    /\ conn_closes' = conn_closes + 1
    /\ pc' = "close_mqtt"
    /\ NoPublish
    /\ UNCHANGED chan_failed
    /\ UNCHANGED <<db, mqtt_client, dev, env, turn, flushLocals, flushHist,
                   cycleHist, lost_ack, mqtt_closes, orphan, units>>

\* try: close_mqtt(mqtt_client) except Exception: pass; main() returns.
\* close_mqtt: None returns at once; otherwise loop_stop() and disconnect(),
\* an exception of either is logged.
CloseMqtt ==
    /\ pc = "close_mqtt"
    /\ mqtt_closes' = mqtt_closes + 1
    /\ pc' = "returned"
    /\ NoPublish
    /\ UNCHANGED chan_failed
    /\ UNCHANGED <<db, mqtt_client, dev, env, turn, flushLocals, flushHist,
                   cycleHist, lost_ack, conn_closes, orphan, units>>

NextStop ==
    \/ MainStep
    \/ Interrupt
    \/ CloseConn
    \/ CloseMqtt

StopSpec == InitLive /\ [][NextStop]_vars

\* ------------------------------------------ the mark-sent UPDATE, alone
\* Tables the program can hold: ids out of 1..MaxId, each at most once
\* (PRIMARY KEY), any of them sent, topic and payload as main() writes them.
QueueRow(id, sent) ==
    [id |-> id, topic |-> MQTT_TOPIC,
     payload |-> make_payload({}, 1 + (id % NumDevices)), sent |-> sent]
Tables ==
    {{QueueRow(id, f[id]) : id \in S} :
        <<S, f>> \in {<<S, f>> \in (SUBSET (1..MaxId)) \X [1..MaxId -> BOOLEAN] :
                        \A i \in (1..MaxId) \ S : ~f[i]}}

InitMark ==
    /\ InitWith(MaxId)
    /\ tbl0 \in Tables
    /\ tbl = tbl0
    /\ row_id \in 1..MaxId
    /\ updates = 0
    /\ tbl_seq = 0
    /\ used = {}
    /\ outcomes = <<>>
    /\ NoRead

\* cur.execute("UPDATE queue SET sent=1 WHERE id=?", (row_id,)); conn.commit()
Update ==
    /\ updates < 2
    /\ tbl' = MarkSent(tbl, row_id)
    /\ updates' = updates + 1
    /\ UNCHANGED <<db, mqtt_client, pc, dev, env, turn, published, acked, chan_failed,
                   flushLocals, flushHist, cycleHist, lost_ack, shutdown,
                   tbl0, row_id, idVars, readVars>>

MarkSpec == InitMark /\ [][Update]_vars

\* ------------------------- INSERT, UPDATE and DELETE of the queue, alone
\* the program's variables stay as main() finds them
Program == <<db, mqtt_client, pc, dev, env, turn, published, acked, chan_failed,
             flushLocals, flushHist, cycleHist, lost_ack, shutdown>>

\* A key that is one more than the number of rows
NextIdCountsRows(q, s) == Cardinality(q) + 1

\* id INTEGER PRIMARY KEY AUTOINCREMENT: one more than the largest id the
\* table ever held, which sqlite_sequence keeps
NextId(q, s) == s + 1

\* INSERT INTO queue (topic, payload, ts, sent) VALUES (?, ?, ?, 0)
InsertAlone ==
    /\ tbl_seq < MaxRows
    /\ LET id == NextId(tbl, tbl_seq) IN
          /\ tbl' = Insert(tbl, id, MQTT_TOPIC, make_payload({}, 1))
          /\ tbl_seq' = id
          /\ used' = used \cup {id}
          /\ row_id' = id
    /\ UNCHANGED <<Program, tbl0, updates, readVars>>

\* UPDATE queue SET sent=1 WHERE id=? for a row of the table
UpdateAlone ==
    /\ \E id \in Ids(tbl) :
          /\ tbl' = MarkSent(tbl, id)
          /\ row_id' = id
    /\ UNCHANGED <<Program, tbl0, updates, idVars, readVars>>

\* DELETE FROM queue WHERE sent=1 AND id < (threshold)
DeleteAlone ==
    /\ tbl' = Cleanup(tbl)
    /\ row_id' = 0
    /\ UNCHANGED <<Program, tbl0, updates, idVars, readVars>>

NextIds ==
    \/ InsertAlone
    \/ UpdateAlone
    \/ DeleteAlone

IdSpec == Init /\ [][NextIds]_vars

\* ---------------------------------------------------- read_all_data, alone
\* the names of DEVICE_META in declaration order: MODULE9, MODULE10, MODULE11
AllRegisters == <<"ac_v_a", "ac_v_b", "ac_v_c", "ac_i_a", "ac_i_b", "ac_i_c",
                  "ac_freq", "ac_kw_p_total", "ac_pf", "ac_kwh">>
Catalogue == Take(AllRegisters, NumRegisters)

\* any(valid_flags)
any(flags) == \E i \in 1..Len(flags) : flags[i]

InitRead ==
    /\ InitWith(MaxId)
    /\ tbl0 = {}
    /\ tbl = {}
    /\ row_id = 0
    /\ updates = 0
    /\ tbl_seq = 0
    /\ used = {}
    /\ outcomes \in [1..Len(Catalogue) -> BOOLEAN]
    /\ NoRead

\* instrument.address = dev_id; data = {}; valid_flags = []
ReadCall ==
    /\ reg = 0
    /\ \E dev_id \in device_ids : address' = dev_id
    /\ reg' = 1
    /\ data' = {}
    /\ valid_flags' = <<>>
    /\ UNCHANGED <<Program, markVars, idVars, outcomes, result, attempts>>

\* A loop that gives up at the first register that cannot be read
ReadRegisterOrGiveUp ==
    /\ reg \in 1..Len(Catalogue)
    /\ result = NoResult
    /\ attempts' = Append(attempts, Catalogue[reg])
    /\ IF outcomes[reg]
       THEN /\ data' = data \cup {Catalogue[reg]}
            /\ valid_flags' = Append(valid_flags, TRUE)
            /\ reg' = reg + 1
       ELSE /\ data' = data
            /\ valid_flags' = Append(valid_flags, FALSE)
            /\ reg' = Len(Catalogue) + 1
    /\ UNCHANGED <<Program, markVars, idVars, outcomes, address, result>>

\* try: value = instrument.read_float(...); data[name] = round(value, ndigits);
\* valid_flags.append(True) except Exception: valid_flags.append(False)
ReadRegister ==
    /\ reg \in 1..Len(Catalogue)
    /\ result = NoResult
    /\ attempts' = Append(attempts, Catalogue[reg])
    /\ IF outcomes[reg]
       THEN /\ data' = data \cup {Catalogue[reg]}
            /\ valid_flags' = Append(valid_flags, TRUE)
       ELSE /\ data' = data
            /\ valid_flags' = Append(valid_flags, FALSE)
    /\ reg' = reg + 1
    /\ UNCHANGED <<Program, markVars, idVars, outcomes, address, result>>

\* if any(valid_flags): return data, True else: return {}, False
ReadReturn ==
    /\ reg = Len(Catalogue) + 1
    /\ result = NoResult
    /\ result' = IF any(valid_flags)
                 THEN <<data, TRUE>>
                 ELSE <<{}, FALSE>>
    /\ UNCHANGED <<Program, markVars, idVars, outcomes, address, reg, data,
                   valid_flags, attempts>>

NextRead ==
    \/ ReadCall
    \/ ReadRegister
    \/ ReadReturn

ReadSpec == InitRead /\ [][NextRead]_vars

\* ================================================================ claims
Unsent(id) == \E r \in queue : r.id = id /\ ~r.sent
SentRows(q) == {r \in q : r.sent}
FlushReturned == pc = "sleep"

\* C1: no two records a, b with a.id < b.id where a is unsent and b is
\* sent: a later record is never marked sent while an earlier one is unsent.
C1_SentInIdOrder ==
    \A a, b \in queue : a.id < b.id => ~(~a.sent /\ b.sent)

\* C2: when the publish of the k-th row of a batch fails or is not
\* acknowledged, no later row of the batch is handed to publish, and the
\* call returns k-1 with rows 1..k-1 sent and rows k..n unsent.
C2_BatchStopsAtFailure ==
    failed_at # 0 =>
        /\ attempted <= failed_at
        /\ FlushReturned =>
              /\ ret = failed_at - 1
              /\ \A i \in 1..Len(rows) :
                    IF i < failed_at THEN ~Unsent(rows[i].id)
                    ELSE Unsent(rows[i].id)

\* C4: a record is created unsent; its sent flag only goes from false to
\* true, and only in the mark step of flush right after the publish of that
\* record's payload was confirmed; topic and payload never change.
C4_SentOnlyAfterConfirmedPublish ==
    [][ /\ \A r \in queue : \A r2 \in queue' :
              r2.id = r.id =>
                 /\ r2.topic = r.topic
                 /\ r2.payload = r.payload
                 /\ r.sent => r2.sent
                 /\ (~r.sent /\ r2.sent) =>
                       /\ pc = "flush_mark"
                       /\ acked
                       /\ rows[idx].id = r.id
                       /\ published = r.payload
        /\ \A r2 \in queue' : r2.id \notin Ids(queue) => ~r2.sent
      ]_vars

C4_Witness ==
    /\ pc = "flush_pub"
    /\ sent_count > 0
    /\ \E r \in queue : r.sent /\ r.id = rows[1].id
    /\ oppAcked # {}

\* C5: the cleanup step of flush_db_queue deletes no unsent record: every
\* record unsent before it is still there, unchanged, after it.
C5_PruneKeepsUnsent ==
    [][ pc = "prune" => \A r \in queue : ~r.sent => r \in queue' ]_vars

C5_Witness ==
    /\ FlushReturned
    /\ deleted >= 0
    /\ \E r \in queue : ~r.sent /\ r.id < Threshold(queue)

Newest(S, n) == {r \in S : Cardinality({x \in S : x.id > r.id}) < n}
CleanupRan == pc = "prune" /\ deleted' >= 0

\* C6 as stated: after the cleanup the sent records left are exactly the
\* RetainCount sent records with the highest ids.
C6_KeepsNewestRetainCount ==
    [][ CleanupRan =>
           SentRows(queue') = Newest(SentRows(queue), RetainCount) ]_vars

\* C6 amended: after the cleanup the records left are the unsent ones and
\* the sent ones with id >= max_id - RetainCount, max_id being the highest id
\* of any record, sent or not; with consecutive ids and no unsent record,
\* RetainCount + k sent records lose their k - 1 oldest.
C6_KeepsFromMaxIdMinusRetain ==
    [][ CleanupRan =>
           LET hi == MaxOf(Ids(queue))
               lo == MinOf(Ids(queue))
               n  == Cardinality(queue)
           IN /\ queue' = {r \in queue : ~r.sent \/ r.id >= hi - RetainCount}
              /\ deleted' = Cardinality(queue) - Cardinality(queue')
              /\ (SentRows(queue) = queue /\ Ids(queue) = lo..hi
                    /\ n > RetainCount)
                 => deleted' = (n - RetainCount) - 1 ]_vars

C6_Witness ==
    /\ FlushReturned
    /\ deleted > 0
    /\ Cardinality(SentRows(queue)) = RetainCount + 1

\* C7: in every cycle enqueue_to_db is called exactly once per configured
\* device, whatever the reading and the state of the channel; an accepted
\* insert appends exactly one unsent record with that device's payload and
\* nothing else in the device loop changes the table.
C7_Count ==
    /\ pc \in {"read", "enqueue"} => enq_calls = dev - 1
    /\ pc \in {"reconnect", "publish"} => enq_calls = dev
    /\ pc \in {"flush", "flush_pub", "flush_mark", "prune", "sleep"}
          => enq_calls = NumDevices
    /\ inserted <= enq_calls

C7_Step ==
    /\ enq_calls' = enq_calls + 1 =>
          \/ inserted' = inserted /\ queue' = queue
          \/ /\ inserted' = inserted + 1
             /\ Cardinality(queue') = Cardinality(queue) + 1
             /\ \E r \in queue' \ queue :
                   /\ queue' = queue \cup {r}
                   /\ ~r.sent
                   /\ r.topic = MQTT_TOPIC
                   /\ r.payload = payload
                   /\ r.payload.device_id = dev
                   /\ \A x \in queue : x.id < r.id
    /\ (pc \in {"read", "reconnect", "publish"} /\ pc' # "start") =>
          queue' = queue /\ inserted' = inserted

\* C7: the count of enqueue_to_db calls per cycle and the effect of each
\* call on the table, in every reachable state and step.
C7_OneEnqueuePerDevice == []C7_Count /\ [][C7_Step]_vars

C7_Witness ==
    /\ pc = "flush"
    /\ mqtt_client = "None"
    /\ inserted = NumDevices
    /\ \E r \in queue : r.id = seq /\ r.payload.measures = {} /\ ~r.sent

\* C8: every payload handed to client.publish, in the device loop or in
\* flush, is the payload of a record committed to the queue.
C8_StoreBeforeForward ==
    [][ ( /\ pc \in {"publish", "flush_pub"}
          /\ mqtt_client = "client"
          /\ pc' # "start" )
        => \E r \in disk : r.payload = published' ]_vars

RowIds == {rows[i].id : i \in 1..Len(rows)}
Committed(id) == id <= seq
Done(id) == Committed(id) /\ ~Unsent(id)
KeepsUnsent == \A r \in queue : ~r.sent => \E r2 \in queue' : r2.id = r.id

C9_Inv ==
    /\ \A id \in oppAcked :
          /\ pc \in {"read", "enqueue", "reconnect", "publish", "flush"}
                => Unsent(id)
          /\ pc \in {"flush_pub", "flush_mark", "prune"}
                => id \in RowIds \/ Len(rows) = max_batch
          /\ ~Unsent(id) => id \in flushAcked
    /\ (FlushReturned /\ rows # <<>> /\ ret = Len(rows))
          => RowIds \subseteq flushAcked

C10_Inv ==
    /\ (cur_id # 0 /\ pc \in {"reconnect", "publish"})
          => \E r \in disk : r.id = cur_id /\ r.payload = payload /\ ~r.sent
    /\ pc = "start" => queue = disk

C10_Step ==
    /\ \A r \in disk : ~r.sent =>
          \E r2 \in disk' :
             /\ r2.id = r.id
             /\ r2.payload = r.payload
             /\ r2.sent => (pc = "flush_mark" /\ acked /\ rows[idx].id = r.id)
    /\ (pc # "start" /\ pc' = "start") =>
          /\ disk' = disk
          /\ Pending(queue', MaxId) = Pending(disk, MaxId)

\* C10: committed records stay pending across every step, a crash included,
\* until their sent update is committed after a confirmed publish.
C10_DurableAcrossCrash == []C10_Inv /\ [][C10_Step]_vars

C10_Witness ==
    /\ pc = "start"
    /\ lost_ack # 0
    /\ Unsent(lost_ack)
    /\ Pending(queue, MaxId)[1].id = lost_ack

\* C11: whatever fails in a cycle (register reads, the INSERT, connect, the
\* opportunistic publish, any step of the flush), every device of device_ids
\* gets its turn, flush_db_queue is called exactly once after the last
\* device, the loop reaches its sleep and starts the next cycle; without an
\* interruption from outside the loop never ends.
C11_Inv ==
    /\ pc \in CyclePcs \cup {"start"}
    /\ pc \in {"read", "enqueue"} => enq_calls = dev - 1 /\ flush_calls = 0
    /\ pc \in {"reconnect", "publish"} => enq_calls = dev /\ flush_calls = 0
    /\ pc = "flush" => enq_calls = NumDevices /\ flush_calls = 0
    /\ pc \in {"flush_pub", "flush_mark", "prune", "sleep"} =>
          enq_calls = NumDevices /\ flush_calls = 1
C11_NoStepAbortsCycle ==
    /\ []C11_Inv
    /\ (pc = "read" /\ dev = 1) ~> (pc = "sleep")
    /\ (pc = "sleep") ~> (pc = "read" /\ dev = 1 /\ enq_calls = 0)
C11_Witness ==
    /\ pc = "sleep"
    /\ enq_calls = NumDevices
    /\ inserted < NumDevices
    /\ failed_at # 0
    /\ flush_calls = 1

\* C12: when the loop is interrupted at any step of a cycle, main() returns
\* only after conn.close() and close_mqtt() were each called once (close_mqtt
\* doing nothing for None, an exception of one not skipping the other), and
\* no connected client is left open.
C12_HandlesClosedOnce == pc = "returned" => conn_closes = 1 /\ mqtt_closes = 1
C12_ClosedBeforeReturn == pc = "returned" => C12_HandlesClosedOnce /\ ~orphan

\* C13: executing the mark-sent UPDATE a second time for the same id leaves
\* the table as the first execution left it; for an id that is already sent
\* (or not in the table) the UPDATE changes nothing; it never adds, removes
\* or changes a row with another id, nor the topic or payload of its own.
C13_Inv ==
    updates >= 1 =>
        /\ Ids(tbl) = Ids(tbl0)
        /\ Cardinality(tbl) = Cardinality(tbl0)
        /\ \A r \in tbl0 :
              IF r.id = row_id THEN [r EXCEPT !.sent = TRUE] \in tbl
                               ELSE r \in tbl
        /\ (~\E r \in tbl0 : r.id = row_id /\ ~r.sent) => tbl = tbl0
C13_MarkSentIdempotent ==
    /\ []C13_Inv
    /\ [][updates = 1 => tbl' = tbl]_vars
C13_Witness ==
    /\ updates = 2
    /\ tbl # tbl0
    /\ \E r \in tbl : r.id # row_id /\ ~r.sent
    /\ \E r \in tbl : r.id # row_id /\ r.sent

\* C14: every call of flush_db_queue executes the cleanup DELETE before it
\* returns: the step by which a call returns is the cleanup step, also when
\* client is None, when nothing is pending and when nothing was delivered.
C14_PruneOnEveryFlush ==
    [][(pc # "sleep" /\ pc' = "sleep") => pc = "prune"]_vars

\* C15: once a publish on an existing client has failed (exception, or not
\* published), main() calls connect_mqtt() before anything is handed to
\* client.publish again, by the loop or by flush_db_queue.
PublishAttempt == published' # NoPayload
C15_ConnectAfterPublishFailure == [][PublishAttempt => ~chan_failed]_vars

\* C16: with mqtt_client None at a device's turn, connect_mqtt is called
\* once for that device, after its enqueue_to_db call; when it returns None
\* the handle stays None, nothing is published for the device, its row
\* stays unsent and the loop moves on, so that the next device's turn calls
\* connect_mqtt again; flush_db_queue(None, ...) returns 0, publishes
\* nothing and leaves the table as it is.
C16_Running == pc' # "start"
C16_Inv ==
    /\ pc = "reconnect" => mqtt_client = "None"
    /\ (pc = "publish" /\ mqtt_client = "None" /\ cur_id # 0) => Unsent(cur_id)
C16_Step ==
    /\ (pc = "enqueue" /\ C16_Running) =>
          /\ enq_calls' = enq_calls + 1
          /\ pc' = IF mqtt_client = "None" THEN "reconnect" ELSE "publish"
    /\ (pc = "reconnect" /\ C16_Running) =>
          /\ ~chan_failed'
          /\ pc' = "publish"
          /\ dev' = dev
          /\ queue' = queue
          /\ ~PublishAttempt
    /\ (pc = "publish" /\ mqtt_client = "None" /\ C16_Running) =>
          /\ ~PublishAttempt
          /\ mqtt_client' = "None"
          /\ queue' = queue
          /\ IF dev < NumDevices
             THEN pc' = "read" /\ dev' = dev + 1
             ELSE pc' = "flush"
    /\ (pc = "flush" /\ mqtt_client = "None" /\ C16_Running) =>
          /\ ~PublishAttempt
          /\ ret' = 0
          /\ pc' = "sleep"
          /\ queue' = queue
          /\ disk' = disk
          /\ mqtt_client' = "None"
C16_AbsentChannel == []C16_Inv /\ [][C16_Step]_vars
C16_Witness ==
    /\ pc = "sleep"
    /\ mqtt_client = "None"
    /\ flush_calls = 1
    /\ ret = 0
    /\ inserted = NumDevices
    /\ \A r \in queue : ~r.sent
    /\ Cardinality(queue) >= NumDevices

\* C17: a flush_db_queue call hands to client.publish only rows of the
\* max_batch lowest-id unsent rows the table held when the call started, in
\* strictly ascending id order and each at most once; it returns the number
\* of rows it marked sent, at most max_batch; a call whose pending SELECT
\* raises (or that has no client or nothing pending) returns 0, publishes
\* nothing and leaves the table as it is.
LowestUnsent(q, n) ==
    {r \in q : ~r.sent /\ Cardinality({x \in q : ~x.sent /\ x.id < r.id}) < n}
InFlushLoop == pc \in {"flush_pub", "flush_mark", "prune"}
C17_Inv ==
    /\ InFlushLoop =>
          /\ Len(rows) \in 1..max_batch
          /\ \A i, j \in 1..Len(rows) : i < j => rows[i].id < rows[j].id
          /\ idx \in 1..Len(rows)
          /\ attempted <= idx
          /\ \A i \in 1..Len(rows) : i > idx => Unsent(rows[i].id)
          /\ sent_count = Cardinality({r \in queue : r.id \in RowIds /\ r.sent})
          /\ sent_count <= attempted
    /\ FlushReturned => ret \in 0..max_batch
C17_Step ==
    /\ (pc = "flush" /\ pc' = "flush_pub") =>
          /\ {rows'[i] : i \in 1..Len(rows')} =
                {[id |-> r.id, topic |-> r.topic, payload |-> r.payload] :
                    r \in LowestUnsent(queue, max_batch)}
          /\ Len(rows') = Cardinality(LowestUnsent(queue, max_batch))
          /\ ~PublishAttempt
          /\ queue' = queue
    /\ (pc = "flush" /\ pc' = "sleep") =>
          /\ ret' = 0
          /\ ~PublishAttempt
          /\ queue' = queue
          /\ disk' = disk
    /\ (pc = "flush_pub" /\ pc' # "start") =>
          /\ attempted < idx
          /\ attempted' = idx
          /\ published' = rows[idx].payload
          /\ Unsent(rows[idx].id)
          /\ rows' = rows
    /\ (InFlushLoop /\ pc' # "start") =>
          /\ ~PublishAttempt => attempted' = attempted
          /\ \A r \in queue : (~r.sent /\ r.id \notin RowIds) => r \in queue'
    /\ (pc = "prune" /\ pc' = "sleep") =>
          ret' = Cardinality({r \in queue : r.id \in RowIds /\ r.sent})
C18_Inv ==
    /\ Cardinality(Ids(tbl)) = Cardinality(tbl)
    /\ Ids(tbl) \subseteq used
C18_Step ==
    /\ \A r \in tbl' :
          (r.id \notin Ids(tbl)) =>
              /\ \A u \in used : u < r.id
              /\ \A x \in tbl : x.id < r.id
              /\ used' = used \cup {r.id}
    /\ Cardinality(tbl' \ tbl) <= 1
C18_IdsNeverReused == []C18_Inv /\ [][C18_Step]_vars
C18_Witness ==
    /\ used # Ids(tbl)
    /\ row_id = MaxOf(used \cup {0})
    /\ \E r \in tbl : r.id = row_id /\ ~r.sent
    /\ \E r \in tbl : r.sent

\* C19: whatever registers fail, read_all_data hands every register of the
\* catalogue to read_float once, in declaration order; the keys of the
\* returned data are exactly the registers whose read returned, and
\* has_valid is true iff there is at least one; with every read failing it
\* returns the empty data and False.
Succeeded == {Catalogue[i] : i \in {j \in 1..Len(Catalogue) : outcomes[j]}}
C19_Inv ==
    /\ Len(attempts) <= Len(Catalogue)
    /\ attempts = SubSeq(Catalogue, 1, Len(attempts))
    /\ result # NoResult =>
          /\ attempts = Catalogue
          /\ result[1] = Succeeded
          /\ result[2] = (Succeeded # {})
          /\ Succeeded = {} => result = <<{}, FALSE>>
C19_ReadAllData == []C19_Inv /\ [][Len(attempts') <= Len(attempts) + 1]_vars
C19_Witness ==
    /\ result # NoResult
    /\ result[2] = TRUE
    /\ Cardinality(result[1]) = 1
    /\ Cardinality({i \in 1..Len(valid_flags) : ~valid_flags[i]}) >= 2
    /\ ~outcomes[1]
====
